---- MODULE Spec2Model ----
(***************************************************************************)
(* Model of crates/nockup/scripts/scan-deps.py: discovery of .hoon files,  *)
(* extraction of the import header, resolution of each raw token to a      *)
(* package key, and construction of the dependency graph.                  *)
(*                                                                         *)
(* A Python str is a sequence of one-character strings, so that strip,     *)
(* split, startswith, endswith and slicing are computed character by       *)
(* character as the interpreter computes them.                             *)
(***************************************************************************)
EXTENDS Integers, Sequences, FiniteSets, TLC

VARIABLES
    pc,             \* position of the control flow of the run
    scan_dir_name,  \* directory.name of the scan root
    files,          \* the file map, in insertion order: <<[key, install_path]>>
    cur,            \* index in files of the file the build loop is at
    raw_deps,       \* get_dependencies' result for the current file
    ti,             \* number of tokens of raw_deps already processed
    resolved,       \* local `resolved` of build_dependency_graph (last call)
    resolved_deps,  \* local `resolved_deps` of build_dependency_graph
    graph,          \* the graph under construction: key -> list of keys
    tokens,         \* what get_dependencies returned for each file read
    content,        \* lines of the file get_dependencies is reading
    pos,            \* number of lines the `for line in f` loop has consumed
    deps,           \* local `deps` of get_dependencies
    failed,         \* whether the except clause of get_dependencies ran
    specifiers      \* the specifiers the directive under test was written from

vars == <<pc, scan_dir_name, files, cur, raw_deps, ti, resolved, resolved_deps,
          graph, tokens, content, pos, deps, failed, specifiers>>

----------------------------------------------------------------------------
(* Bounds of the model. *)

\* number of .hoon files under the scan root
MaxFiles == 3

\* number of lines of a file read by get_dependencies
MaxLines == 3

\* number of comma-separated specifiers of a named-import directive
MaxSpecifiers == 2

----------------------------------------------------------------------------
(* Python str operations on character sequences. *)

\* Python's None
None == <<"None">>

\* str.isspace(), for the characters the files are written with
IsSpace(c) == c \in {" ", "\t", "\n"}

\* s[i:] for 0 <= i
Drop(s, i) == SubSeq(s, i + 1, Len(s))

\* s.startswith(p)
StartsWith(s, p) == Len(p) <= Len(s) /\ SubSeq(s, 1, Len(p)) = p

\* s.endswith(p)
EndsWith(s, p) == Len(p) <= Len(s) /\ SubSeq(s, Len(s) - Len(p) + 1, Len(s)) = p

\* c in s, for a one-character c
Contains(s, c) == \E i \in 1..Len(s) : s[i] = c

RECURSIVE LStrip(_)
LStrip(s) == IF s # <<>> /\ IsSpace(Head(s)) THEN LStrip(Tail(s)) ELSE s

RECURSIVE RStrip(_)
RStrip(s) ==
    IF s # <<>> /\ IsSpace(s[Len(s)]) THEN RStrip(SubSeq(s, 1, Len(s) - 1)) ELSE s

\* s.strip()
Strip(s) == RStrip(LStrip(s))

\* s.split(c): the pieces between occurrences of c, empty pieces kept
RECURSIVE SplitOn(_, _)
SplitOn(s, c) ==
    IF ~Contains(s, c) THEN <<s>>
    ELSE LET i == CHOOSE j \in 1..Len(s) :
                      s[j] = c /\ \A k \in 1..(j - 1) : s[k] # c
         IN  <<SubSeq(s, 1, i - 1)>> \o SplitOn(Drop(s, i), c)

\* s.split(): the maximal runs of non-whitespace characters
RECURSIVE SplitWs(_)
SplitWs(s) ==
    LET t == LStrip(s)
    IN  IF t = <<>> THEN <<>>
        ELSE LET n == IF \E j \in 1..Len(t) : IsSpace(t[j])
                      THEN (CHOOSE j \in 1..Len(t) :
                                IsSpace(t[j]) /\ \A k \in 1..(j - 1) : ~IsSpace(t[k])) - 1
                      ELSE Len(t)
             IN  <<SubSeq(t, 1, n)>> \o SplitWs(Drop(t, n))

\* sep.join(parts)
RECURSIVE Join(_, _)
Join(parts, sep) ==
    IF parts = <<>> THEN <<>>
    ELSE IF Len(parts) = 1 THEN parts[1]
    ELSE parts[1] \o sep \o Join(Tail(parts), sep)

\* the concatenation of a sequence of sequences
RECURSIVE Flatten(_)
Flatten(ss) == IF ss = <<>> THEN <<>> ELSE Head(ss) \o Flatten(Tail(ss))

----------------------------------------------------------------------------
(* get_dependencies: the import header of one file. *)

\* mutant of LineStops: `continue` where the loop has `break`
LineNeverStops(line) == FALSE

\* the `break` of the line loop: a stripped, non-empty line that starts with
\* neither '/' nor '::'
LineStops(line) ==
    LET l == Strip(line)
    IN  /\ l # <<>>
        /\ ~(StartsWith(l, <<"/">>) \/ StartsWith(l, <<":", ":">>))

\* the two `continue`s that precede the split: blank line, comment line
LineSkipped(line) ==
    LET l == Strip(line)
    IN  l = <<>> \/ StartsWith(l, <<":", ":">>)

\* mutant of SpecifierToken: keeps the left-hand side of source=alias
SpecifierTokenKeepsSource(d0) ==
    LET d1 == Strip(d0)
        d2 == IF StartsWith(d1, <<"*">>) THEN Drop(d1, 1) ELSE d1
        d3 == IF Contains(d2, "=") THEN Strip(Head(SplitOn(d2, "="))) ELSE d2
    IN  IF d3 # <<>> THEN <<d3>> ELSE <<>>

\* one specifier of a named import: what the body of `for d in ...` appends
SpecifierToken(d0) ==
    LET d1 == Strip(d0)
        d2 == IF StartsWith(d1, <<"*">>) THEN Drop(d1, 1) ELSE d1
        pieces == SplitOn(d2, "=")
        d3 == IF Contains(d2, "=") THEN Strip(pieces[Len(pieces)]) ELSE d2
    IN  IF d3 # <<>> THEN <<d3>> ELSE <<>>

\* prefix in ('/+', '/-', '/#')
NamedImportTokens(parts) ==
    LET dep_str == Join(Tail(parts), <<" ">>)
        ds == SplitOn(dep_str, ",")
    IN  Flatten([i \in 1..Len(ds) |-> SpecifierToken(ds[i])])

\* prefix == '/='
PathImportTokens(parts) ==
    IF Len(parts) >= 3
    THEN LET p0 == parts[3]
             path == IF StartsWith(p0, <<"/">>) THEN Drop(p0, 1) ELSE p0
         IN  IF path # <<>> THEN <<path>> ELSE <<>>
    ELSE <<>>

\* what one loop iteration appends to deps, for a line that does not stop
\* the loop
LineTokens(line) ==
    LET l == Strip(line)
        parts == SplitWs(l)
    IN  IF LineSkipped(line) \/ parts = <<>> THEN <<>>
        ELSE IF parts[1] \in {<<"/", "+">>, <<"/", "-">>, <<"/", "#">>}
             THEN NamedImportTokens(parts)
        ELSE IF parts[1] = <<"/", "=">> THEN PathImportTokens(parts)
        ELSE <<>>

\* The line loop from line i on, with deps = acc. `good` is the number of
\* reads of the file that succeed before one raises (Len(lines) + 1 when none
\* does, the read that finds the end of the file included); the except clause
\* leaves deps as it is.
RECURSIVE ScanLines(_, _, _, _)
ScanLines(lines, i, acc, good) ==
    IF i > good \/ i > Len(lines) THEN acc
    ELSE IF LineStops(lines[i]) THEN acc
    ELSE ScanLines(lines, i + 1, acc \o LineTokens(lines[i]), good)

\* get_dependencies(file_path) for a file holding `lines`; good = 0 is also
\* the failure of open()
GetDependencies(lines, good) == ScanLines(lines, 1, <<>>, good)

----------------------------------------------------------------------------
(* find_hoon_files: the file map. *)

\* package_key of a file in rel_dir_str with the given stem
PackageKey(rel_dir_str, filename) ==
    IF rel_dir_str # <<>> THEN rel_dir_str \o <<"/">> \o filename ELSE filename

\* install_path of a file in rel_dir_str
InstallPath(scan_name, rel_dir_str) ==
    IF rel_dir_str # <<>> THEN scan_name \o <<"/">> \o rel_dir_str ELSE scan_name

\* the entry files[package_key] = (hoon_file, install_path, hoon_file.name),
\* reduced to what the graph construction reads
FileEntry(scan_name, f) ==
    [key |-> PackageKey(f.rel_dir, f.stem),
     install_path |-> InstallPath(scan_name, f.rel_dir)]

\* files.keys(), in insertion order
KeySeq(fs) == [i \in 1..Len(fs) |-> fs[i].key]

\* k in files
KeySet(fs) == {fs[i].key : i \in 1..Len(fs)}

----------------------------------------------------------------------------
(* resolve_dependency *)

\* mutant of Matches: the suffix test without the '/' before the name
RECURSIVE MatchesAnySuffix(_, _)
MatchesAnySuffix(ks, dep_name) ==
    IF ks = <<>> THEN <<>>
    ELSE (IF EndsWith(Head(ks), dep_name) THEN <<Head(ks)>> ELSE <<>>)
         \o MatchesAnySuffix(Tail(ks), dep_name)

\* [k for k in files.keys() if k.endswith(f"/{dep_name}") or k == dep_name]
RECURSIVE Matches(_, _)
Matches(ks, dep_name) ==
    IF ks = <<>> THEN <<>>
    ELSE (IF EndsWith(Head(ks), <<"/">> \o dep_name) \/ Head(ks) = dep_name
          THEN <<Head(ks)>> ELSE <<>>) \o Matches(Tail(ks), dep_name)

\* the last resort: the first match, in file-map order, or None
GlobalSearch(fs, dep_name) ==
    LET matches == Matches(KeySeq(fs), dep_name)
    IN  IF Len(matches) >= 1 THEN matches[1] ELSE None

\* from "# Try same directory first" on: dep_name holds no '/' any more, or
\* never did
ResolveBareName(dep_name, current_file_dir, fs) ==
    LET same_dir_key == current_file_dir \o <<"/">> \o dep_name
        parts == SplitOn(current_file_dir, "/")
        parent == Join(SubSeq(parts, 1, Len(parts) - 1), <<"/">>)
        sibling_key == parent \o <<"/">> \o dep_name
    IN  IF current_file_dir # <<>> /\ same_dir_key \in KeySet(fs) THEN same_dir_key
        ELSE IF dep_name \in KeySet(fs) THEN dep_name
        ELSE IF current_file_dir # <<>> /\ Len(parts) > 1
                /\ sibling_key \in KeySet(fs) THEN sibling_key
        ELSE GlobalSearch(fs, dep_name)

\* mutant of ResolveDependency: a token that holds a '/' is returned without
\* the test `dep_name in files`
ResolveDependencyTrustsPath(dep_name, current_file_dir, fs) ==
    IF Contains(dep_name, "/") THEN dep_name
    ELSE ResolveBareName(dep_name, current_file_dir, fs)

\* resolve_dependency(dep_name, current_file_dir, files)
ResolveDependency(dep_name, current_file_dir, fs) ==
    IF Contains(dep_name, "/")
    THEN IF dep_name \in KeySet(fs) THEN dep_name
         ELSE LET segs == SplitOn(dep_name, "/")
              IN  ResolveBareName(segs[Len(segs)], current_file_dir, fs)
    ELSE ResolveBareName(dep_name, current_file_dir, fs)

----------------------------------------------------------------------------
(* build_dependency_graph *)

\* the prefix stripping that precedes each resolve_dependency call
StripScanDir(dep_name, scan_name) ==
    IF StartsWith(dep_name, scan_name \o <<"/">>)
    THEN Drop(dep_name, Len(scan_name) + 1)
    ELSE dep_name

\* `if resolved:`
Truthy(r) == r # None /\ r # <<>>

\* resolved_deps after the loop body has run for one token
AppendResolved(acc, r) == IF Truthy(r) THEN Append(acc, r) ELSE acc

\* mutant of StoreEntry: a file without edges gets no entry
StoreEntryIfAny(g, full_key, rdeps) ==
    IF rdeps = <<>> THEN g
    ELSE [k \in DOMAIN g \cup {full_key} |-> IF k = full_key THEN rdeps ELSE g[k]]

\* graph[full_key] = resolved_deps
StoreEntry(g, full_key, rdeps) ==
    [k \in DOMAIN g \cup {full_key} |-> IF k = full_key THEN rdeps ELSE g[k]]

----------------------------------------------------------------------------
(* The inputs of a run: the scan root, the files under it, what they hold. *)

\* directory.name: "s", "h", and "" (the scan root given as "." or "/")
ScanNames == {<<"s">>, <<"h">>, <<>>}

\* the .hoon files that may lie under the scan root: y.hoon, a/x.hoon,
\* a/y.hoon, s/y.hoon, e/yz.hoon
HoonFiles ==
    {[rel_dir |-> <<>>, stem |-> <<"y">>],
     [rel_dir |-> <<"a">>, stem |-> <<"x">>],
     [rel_dir |-> <<"a">>, stem |-> <<"y">>],
     [rel_dir |-> <<"s">>, stem |-> <<"y">>],
     [rel_dir |-> <<"e">>, stem |-> <<"y", "z">>]}

\* what a file read by build_dependency_graph may hold
FileContents ==
    {<<>>,
     \* /+  y
     <<<<"/", "+", " ", " ", "y">>>>,
     \* :: c
     \* /+  z, *q=y, y
     \* |%
     <<<<":", ":", " ", "c">>,
       <<"/", "+", " ", " ", "z", ",", " ", "*", "q", "=", "y", ",", " ", "y">>,
       <<"|", "%">>>>,
     \* /=  q  /s/y
     <<<<"/", "=", " ", " ", "q", " ", " ", "/", "s", "/", "y">>>>,
     \* /=  q  /e/y
     <<<<"/", "=", " ", " ", "q", " ", " ", "/", "e", "/", "y">>>>}

\* the lines a header may be written from:
\* "", ":: c", "/+ y", "\t/- z\n", "/? 3", "/= q /a/y", "|%"
HeaderLines ==
    {<<>>,
     <<":", ":", " ", "c">>,
     <<"/", "+", " ", "y">>,
     <<"\t", "/", "-", " ", "z", "\n">>,
     <<"/", "?", " ", "3">>,
     <<"/", "=", " ", "q", " ", "/", "a", "/", "y">>,
     <<"|", "%">>}

\* the texts of at most n lines of HeaderLines
RECURSIVE TextsUpTo(_)
TextsUpTo(n) ==
    IF n = 0 THEN {<<>>}
    ELSE LET shorter == TextsUpTo(n - 1)
         IN  shorter \cup {Append(t, l) : t \in shorter, l \in HeaderLines}

\* the names a specifier is written with
Names == {<<"f", "o">>, <<"b">>}

\* a named-import specifier, by its parts: kind "plain" is [*]name, kind
\* "rename" is [*]source=alias (the alias may be missing), kind "empty" is
\* nothing; pad puts a blank on both sides of every part
SpecifierForms ==
    [kind : {"plain"}, star : BOOLEAN, source : {<<>>}, alias : Names, pad : BOOLEAN]
    \cup [kind : {"rename"}, star : BOOLEAN, source : Names, alias : Names \cup {<<>>},
           pad : BOOLEAN]
    \cup [kind : {"empty"}, star : {FALSE}, source : {<<>>}, alias : {<<>>}, pad : BOOLEAN]

\* the text of a specifier
SpecifierText(sp) ==
    LET b == IF sp.pad THEN <<" ">> ELSE <<>>
        st == IF sp.star THEN <<"*">> ELSE <<>>
    IN  IF sp.kind = "plain" THEN b \o st \o b \o sp.alias \o b
        ELSE IF sp.kind = "rename"
             THEN b \o st \o b \o sp.source \o b \o <<"=">> \o b \o sp.alias \o b
        ELSE b

\* the directive line: the prefix, two blanks, the specifiers between commas
DirectiveText(prefix, sps) ==
    prefix \o <<" ", " ">> \o Join([i \in 1..Len(sps) |-> SpecifierText(sps[i])], <<",">>)

\* the lists of 1..n specifiers
RECURSIVE SpecifierLists(_)
SpecifierLists(n) ==
    IF n = 0 THEN {<<>>}
    ELSE LET shorter == SpecifierLists(n - 1)
         IN  shorter \cup {Append(t, sp) : t \in shorter, sp \in SpecifierForms}

NamedPrefixes == {<<"/", "+">>, <<"/", "-">>, <<"/", "#">>}

EmptyMap == [k \in {} |-> <<>>]

----------------------------------------------------------------------------
(* The run of main(): find_hoon_files, then build_dependency_graph. *)

extractVars == <<content, pos, deps, failed, specifiers>>

graphVars == <<scan_dir_name, files, cur, raw_deps, ti, resolved, resolved_deps,
               graph, tokens>>

Init ==
    /\ pc = "discover"
    /\ scan_dir_name \in ScanNames
    /\ files = <<>>
    /\ cur = 1
    /\ raw_deps = <<>>
    /\ ti = 0
    /\ resolved = None
    /\ resolved_deps = <<>>
    /\ graph = EmptyMap
    /\ tokens = EmptyMap
    /\ content = <<>>
    /\ pos = 0
    /\ deps = <<>>
    /\ failed = FALSE
    /\ specifiers = <<>>

\* one iteration of `for hoon_file in directory.rglob("*.hoon")`: rglob yields
\* a file it has not yielded yet, in whatever order the file system lists them
Discover ==
    /\ pc = "discover"
    /\ Len(files) < MaxFiles
    /\ \E f \in HoonFiles :
          /\ FileEntry(scan_dir_name, f).key \notin KeySet(files)
          /\ files' = Append(files, FileEntry(scan_dir_name, f))
    /\ UNCHANGED <<pc, scan_dir_name, cur, raw_deps, ti, resolved, resolved_deps,
                   graph, tokens>>
    /\ UNCHANGED extractVars

\* rglob is exhausted: find_hoon_files returns, build_dependency_graph starts
\* with graph = {}
StartBuild ==
    /\ pc = "discover"
    /\ pc' = "build"
    /\ graph' = EmptyMap
    /\ cur' = 1
    /\ UNCHANGED <<scan_dir_name, files, raw_deps, ti, resolved, resolved_deps, tokens>>
    /\ UNCHANGED extractVars

\* the head of the loop over files.items(): raw_deps = get_dependencies(...),
\* resolved_deps = []. The file holds one of FileContents and its reading may
\* fail at any point.
ReadFile ==
    /\ pc = "build"
    /\ cur <= Len(files)
    /\ \E c \in FileContents : \E good \in 0..(Len(c) + 1) :
          /\ raw_deps' = GetDependencies(c, good)
          /\ tokens' = [k \in DOMAIN tokens \cup {files[cur].key} |->
                            IF k = files[cur].key THEN GetDependencies(c, good)
                            ELSE tokens[k]]
    /\ ti' = 0
    /\ resolved_deps' = <<>>
    /\ pc' = "resolve"
    /\ UNCHANGED <<scan_dir_name, files, cur, resolved, graph>>
    /\ UNCHANGED extractVars

\* one iteration of `for dep_name in raw_deps`
ResolveToken ==
    /\ pc = "resolve"
    /\ ti < Len(raw_deps)
    /\ LET dep_name == StripScanDir(raw_deps[ti + 1], scan_dir_name)
           r == ResolveDependency(dep_name, files[cur].install_path, files)
       IN  /\ resolved' = r
           /\ resolved_deps' = AppendResolved(resolved_deps, r)
    /\ ti' = ti + 1
    /\ UNCHANGED <<pc, scan_dir_name, files, cur, raw_deps, graph, tokens>>
    /\ UNCHANGED extractVars

\* graph[full_key] = resolved_deps, and on to the next file
StoreFile ==
    /\ pc = "resolve"
    /\ ti = Len(raw_deps)
    /\ graph' = StoreEntry(graph, files[cur].key, resolved_deps)
    /\ cur' = cur + 1
    /\ pc' = "build"
    /\ UNCHANGED <<scan_dir_name, files, raw_deps, ti, resolved, resolved_deps, tokens>>
    /\ UNCHANGED extractVars

\* return graph
ReturnGraph ==
    /\ pc = "build"
    /\ cur > Len(files)
    /\ pc' = "done"
    /\ UNCHANGED graphVars
    /\ UNCHANGED extractVars

Next ==
    \/ Discover
    \/ StartBuild
    \/ ReadFile
    \/ ResolveToken
    \/ StoreFile
    \/ ReturnGraph

Spec == Init /\ [][Next]_vars

----------------------------------------------------------------------------
(* One call of get_dependencies, line by line. *)

\* a header written from HeaderLines
InitHeader ==
    /\ content \in TextsUpTo(MaxLines)
    /\ specifiers = <<>>

\* a file that is one named-import directive, written from its specifiers
InitDirective ==
    /\ specifiers \in SpecifierLists(MaxSpecifiers) \ {<<>>}
    /\ \E prefix \in NamedPrefixes : content = <<DirectiveText(prefix, specifiers)>>

InitExtract ==
    /\ pc = "open"
    /\ pos = 0
    /\ deps = <<>>
    /\ failed = FALSE
    /\ scan_dir_name = <<>>
    /\ files = <<>>
    /\ cur = 1
    /\ raw_deps = <<>>
    /\ ti = 0
    /\ resolved = None
    /\ resolved_deps = <<>>
    /\ graph = EmptyMap
    /\ tokens = EmptyMap
    /\ (InitHeader \/ InitDirective)

\* open(file_path, 'r', encoding='utf-8') succeeds
Open ==
    /\ pc = "open"
    /\ pc' = "read"
    /\ UNCHANGED <<content, pos, deps, failed, specifiers>>
    /\ UNCHANGED graphVars

\* open raises: the except clause runs, deps is returned
OpenFails ==
    /\ pc = "open"
    /\ failed' = TRUE
    /\ pc' = "return"
    /\ UNCHANGED <<content, pos, deps, specifiers>>
    /\ UNCHANGED graphVars

\* a blank line or a comment: continue
SkipLine ==
    /\ pc = "read"
    /\ pos < Len(content)
    /\ LineSkipped(content[pos + 1])
    /\ pos' = pos + 1
    /\ UNCHANGED <<pc, content, deps, failed, specifiers>>
    /\ UNCHANGED graphVars

\* a line that starts with '/': its tokens, if any, are appended
DirectiveLine ==
    /\ pc = "read"
    /\ pos < Len(content)
    /\ ~LineSkipped(content[pos + 1])
    /\ ~LineStops(content[pos + 1])
    /\ deps' = deps \o LineTokens(content[pos + 1])
    /\ pos' = pos + 1
    /\ UNCHANGED <<pc, content, failed, specifiers>>
    /\ UNCHANGED graphVars

\* the first non-import line: break
BreakLine ==
    /\ pc = "read"
    /\ pos < Len(content)
    /\ ~LineSkipped(content[pos + 1])
    /\ LineStops(content[pos + 1])
    /\ pos' = pos + 1
    /\ pc' = "return"
    /\ UNCHANGED <<content, deps, failed, specifiers>>
    /\ UNCHANGED graphVars

\* reading the next line raises (an I/O error, bytes that are not UTF-8):
\* the except clause runs, deps is returned as it stands
ReadFails ==
    /\ pc = "read"
    /\ failed' = TRUE
    /\ pc' = "return"
    /\ UNCHANGED <<content, pos, deps, specifiers>>
    /\ UNCHANGED graphVars

\* the file is exhausted
EndOfFile ==
    /\ pc = "read"
    /\ pos = Len(content)
    /\ pc' = "return"
    /\ UNCHANGED <<content, pos, deps, failed, specifiers>>
    /\ UNCHANGED graphVars

NextExtract ==
    \/ Open
    \/ OpenFails
    \/ SkipLine
    \/ DirectiveLine
    \/ BreakLine
    \/ ReadFails
    \/ EndOfFile

SpecExtract == InitExtract /\ [][NextExtract]_vars

----------------------------------------------------------------------------
(* Notions the claims are stated with. *)

\* the last '/'-segment of a token or key
FinalSegment(t) == LET segs == SplitOn(t, "/") IN segs[Len(segs)]

\* the directory part of a key, empty for a key at the scan root
DirOf(key) ==
    LET segs == SplitOn(key, "/") IN Join(SubSeq(segs, 1, Len(segs) - 1), <<"/">>)

\* the build loop has just run its body for token raw_deps[ti]
TokenDone == pc = "resolve" /\ ti >= 1

\* the install path recorded for key k
InstallPathOf(fs, k) == fs[CHOOSE i \in 1..Len(fs) : fs[i].key = k].install_path

\* what resolve_dependency is called with for raw token t
CallToken(t) == StripScanDir(t, scan_dir_name)

\* the result of the call made for raw token t of the file with key k
EdgeFor(t, k) == ResolveDependency(CallToken(t), InstallPathOf(files, k), files)

----------------------------------------------------------------------------
(* C1 *)

\* C1: no dangling edge targets. Every element of every adjacency list
\* graph[k], and of the list under construction, is a key of the file map; a
\* token that resolves to nothing contributes no element (None is no element
\* of any list).
NoDanglingEdges ==
    /\ \A k \in DOMAIN graph : \A i \in 1..Len(graph[k]) : graph[k][i] \in KeySet(files)
    /\ \A i \in 1..Len(resolved_deps) : resolved_deps[i] \in KeySet(files)
    /\ (TokenDone /\ resolved = None) =>
           Len(resolved_deps) < ti

\* C1 witness: a finished graph with an edge, built from a file of which one
\* token resolved to nothing
NoDanglingEdgesWitness ==
    /\ pc = "done"
    /\ \E k \in DOMAIN graph :
          /\ graph[k] # <<>>
          /\ Len(graph[k]) < Len(tokens[k])

----------------------------------------------------------------------------
(* C2 *)

\* C2: same-directory rule. When the file with key d/x, d non-empty, imports
\* the bare name y and d/y is a key of the file map, the call made for that
\* import returns d/y.
SameDirectoryRule ==
    TokenDone =>
        LET k == files[cur].key
            y == raw_deps[ti]
        IN  (/\ DirOf(k) # <<>>
             /\ ~Contains(y, "/")
             /\ (DirOf(k) \o <<"/">> \o y) \in KeySet(files))
            => resolved = DirOf(k) \o <<"/">> \o y

----------------------------------------------------------------------------
(* C5 *)

\* C5: path-import rule. When a file holds a path import naming /P and P is a
\* key of the file map, the call made for that directive returns P. (In
\* FileContents the tokens that hold a '/' come from path imports only.)
PathImportRule ==
    TokenDone =>
        LET P == raw_deps[ti]
        IN  (Contains(P, "/") /\ P \in KeySet(files)) => resolved = P

----------------------------------------------------------------------------
(* C9 *)

\* C9: for an importing file directly at the scan root the same-directory
\* rule is skipped: when it imports the bare name n and the root-level key n
\* exists, the call returns n.
RootImporterRule ==
    TokenDone =>
        LET k == files[cur].key
            n == raw_deps[ti]
        IN  (/\ DirOf(k) = <<>>
             /\ ~Contains(n, "/")
             /\ n \in KeySet(files))
            => resolved = n

----------------------------------------------------------------------------
(* C10 *)

\* C10: resolution never changes the final segment of a token. If the call
\* made with token t returns a key r, then r is a key of the file map and r
\* is t, or the final segment b of t, or ends with "/" followed by b.
FinalSegmentKept ==
    (TokenDone /\ resolved # None) =>
        LET t == CallToken(raw_deps[ti])
            b == FinalSegment(t)
        IN  /\ resolved \in KeySet(files)
            /\ \/ resolved = t
               \/ resolved = b
               \/ EndsWith(resolved, <<"/">> \o b)

\* C10 witness: a token with a directory part that is no key, resolved by
\* its final segment to a key in another directory
FinalSegmentKeptWitness ==
    /\ TokenDone
    /\ resolved # None
    /\ Contains(CallToken(raw_deps[ti]), "/")
    /\ resolved # CallToken(raw_deps[ti])
    /\ resolved # FinalSegment(CallToken(raw_deps[ti]))

----------------------------------------------------------------------------
(* C6 *)

IsKey(r) == r # None

\* the results, in token order, of the calls made for the tokens toks of the
\* file with install path dir, over the file map fs; the failures left out
ResolvingTokens(toks, dir, fs) ==
    SelectSeq([i \in 1..Len(toks) |->
                   ResolveDependency(StripScanDir(toks[i], scan_dir_name), dir, fs)],
              IsKey)

\* C6: the graph is total and ordered. When build_dependency_graph is done,
\* every key of the file map has an entry, and the entry is the sequence, in
\* token order and with duplicates, of the results of the tokens that
\* resolve; a failing token is skipped and the later ones still count; a file
\* without resolvable import maps to the empty list.
GraphTotalAndOrdered ==
    pc = "done" =>
        /\ DOMAIN graph = KeySet(files)
        /\ \A k \in KeySet(files) :
              graph[k] = ResolvingTokens(tokens[k], InstallPathOf(files, k), files)

\* C6 witness: a finished graph in which one file has a failing token
\* followed by the same resolving token twice, and another file has no edge
GraphTotalAndOrderedWitness ==
    /\ pc = "done"
    /\ \E k \in DOMAIN graph :
          /\ Len(tokens[k]) = 3
          /\ EdgeFor(tokens[k][1], k) = None
          /\ tokens[k][2] = tokens[k][3]
          /\ graph[k] = <<EdgeFor(tokens[k][2], k), EdgeFor(tokens[k][3], k)>>
    /\ \E k \in DOMAIN graph : graph[k] = <<>>

----------------------------------------------------------------------------
(* C3 *)

\* the file map of a run in which discovery enumerated the same files in the
\* order p
Reordered(fs, p) == [i \in 1..Len(fs) |-> fs[p[i]]]

\* the bare name b, imported by the file with key k, has more than one
\* candidate key and no same-directory, root-level or sibling key
AmbiguousFor(b, k) ==
    LET d == DirOf(k)
    IN  /\ Len(Matches(KeySeq(files), b)) > 1
        /\ b \notin KeySet(files)
        /\ d # <<>> => (d \o <<"/">> \o b) \notin KeySet(files)
        /\ Contains(d, "/") => (DirOf(d) \o <<"/">> \o b) \notin KeySet(files)

\* C3: ambiguity determinism. When the global suffix search finds more than
\* one candidate for a bare name that has no same-directory, root-level or
\* sibling match, the key returned is the one returned over every other order
\* in which discovery may have enumerated the same files.
AmbiguityDeterminism ==
    (/\ TokenDone
     /\ ~Contains(CallToken(raw_deps[ti]), "/")
     /\ AmbiguousFor(CallToken(raw_deps[ti]), files[cur].key))
    => \A p \in Permutations(1..Len(files)) :
           ResolveDependency(CallToken(raw_deps[ti]), files[cur].install_path,
                             Reordered(files, p)) = resolved

----------------------------------------------------------------------------
(* C4 *)

\* blank, or a comment (prefix '::')
BlankOrComment(line) == Strip(line) = <<>> \/ StartsWith(Strip(line), <<":", ":">>)

\* a recognized import directive: the first token is '/+', '/-', '/#' or '/='
RecognizedDirective(line) ==
    /\ SplitWs(line) # <<>>
    /\ SplitWs(line)[1] \in {<<"/", "+">>, <<"/", "-">>, <<"/", "#">>, <<"/", "=">>}

\* the lines that are neither blank nor a comment
Significant(text) == {i \in 1..Len(text) : ~BlankOrComment(text[i])}

\* the index of the first line of text that satisfies Ends, Len(text) + 1 when
\* there is none
FirstLine(text, Ends(_)) ==
    IF \E i \in 1..Len(text) : Ends(text[i])
    THEN CHOOSE i \in 1..Len(text) : Ends(text[i]) /\ \A j \in 1..(i - 1) : ~Ends(text[j])
    ELSE Len(text) + 1

\* none of blank, comment, recognized import directive
EndsRecognizedHeader(line) == ~BlankOrComment(line) /\ ~RecognizedDirective(line)

\* none of blank, comment, line that starts with '/'
EndsSlashHeader(line) == ~BlankOrComment(line) /\ ~StartsWith(Strip(line), <<"/">>)

\* the tokens of the first n lines of text
TokensOfLines(text, n) == Flatten([i \in 1..n |-> LineTokens(text[i])])

IsPrefix(a, b) == Len(a) <= Len(b) /\ SubSeq(b, 1, Len(a)) = a

\* C4 as claimed: header-only rule. When the file is read to its end or to
\* the line that stops the loop, no token is extracted from any line
\* after the first line that is none of blank, comment, recognized import
\* directive; if that line is the first that is neither blank nor a comment,
\* get_dependencies returns the empty list.
HeaderOnlyRule ==
    (pc = "return" /\ ~failed) =>
        IsPrefix(deps, TokensOfLines(content, FirstLine(content, EndsRecognizedHeader) - 1))

\* C4 amended: the header ends at the first line that is none of blank,
\* comment ('::'), line that starts with '/'. No token is extracted from any
\* line after it, and when the first line that is neither blank nor a comment
\* does not start with '/', the result is the empty list.
HeaderOnlyRuleAmended ==
    /\ IsPrefix(deps, TokensOfLines(content, FirstLine(content, EndsSlashHeader) - 1))
    /\ (/\ pc = "return"
        /\ Significant(content) # {}
        /\ \A i \in Significant(content) :
              (\A j \in Significant(content) : i <= j) =>
                  ~StartsWith(Strip(content[i]), <<"/">>))
       => deps = <<>>

\* C4 witness: get_dependencies has returned the empty list for a file whose
\* first line that is neither blank nor a comment is code, and that has
\* an import directive further down
HeaderOnlyRuleWitness ==
    /\ pc = "return"
    /\ ~failed
    /\ deps = <<>>
    /\ \E i \in Significant(content) :
          /\ \A j \in Significant(content) : i <= j
          /\ EndsSlashHeader(content[i])
          /\ \E j \in (i + 1)..Len(content) :
                RecognizedDirective(content[j]) /\ LineTokens(content[j]) # <<>>

----------------------------------------------------------------------------
(* C7 *)

\* C7: unreadable file. Whenever reading fails, at open or while the lines
\* are read, get_dependencies returns the empty token list.
UnreadableFileYieldsNothing == (pc = "return" /\ failed) => deps = <<>>

----------------------------------------------------------------------------
(* C8 *)

\* the token a specifier is claimed to yield: the alias of source=alias
\* (no token when the alias is empty), the text minus a leading '*' of a
\* specifier without '=', nothing when empty
ClaimedToken(sp) ==
    IF sp.kind = "rename" THEN (IF sp.alias # <<>> THEN <<sp.alias>> ELSE <<>>)
    ELSE IF sp.kind = "plain"
         THEN <<(IF sp.star /\ sp.pad THEN <<" ">> ELSE <<>>) \o sp.alias>>
    ELSE <<>>

\* C8: rename rule. For a named-import directive, get_dependencies emits for
\* each specifier source=alias, with or without a leading '*', the trimmed
\* alias and never the source; a specifier without '=' is emitted minus a
\* leading '*'; an empty specifier emits nothing.
RenameRule ==
    (pc = "return" /\ ~failed /\ specifiers # <<>>) =>
        deps = Flatten([i \in 1..Len(specifiers) |-> ClaimedToken(specifiers[i])])

\* C8 witness: the directive held *source=alias with source and alias
\* different, next to an empty specifier, and the alias was emitted
RenameRuleWitness ==
    /\ pc = "return"
    /\ ~failed
    /\ \E i \in 1..Len(specifiers) :
          /\ specifiers[i].kind = "rename"
          /\ specifiers[i].star
          /\ specifiers[i].source # specifiers[i].alias
          /\ deps = <<specifiers[i].alias>>
    /\ \E i \in 1..Len(specifiers) : specifiers[i].kind = "empty"

====
